---- MODULE Spec2Model ----
(***************************************************************************)
(* Orchestrate: the Canvas -> PostgreSQL synchronisation pipeline.         *)
(*   src/src/storage.py              the pooled per-entity upserts         *)
(*   src/src/agents/canvas_agent.py  the source client (CanvasAgent)       *)
(*   src/src/sync_canvas.py          the orchestrator                      *)
(* Three specifications share the variables:                               *)
(*   SpecStorage  the upserts called directly (tests/test_storage.py)      *)
(*   Spec         one run of sync_canvas_to_database                       *)
(*   SpecFetch    the fetch operations called one by one                   *)
(*                (tests/test_canvas.py)                                   *)
(***************************************************************************)
EXTENDS Integers, Sequences, FiniteSets, TLC

VARIABLES
    courses,        \* table courses: a set of rows
    assignments,    \* table assignments
    announcements,  \* table announcements
    front_pages,    \* table front_pages
    now,            \* the store's clock, the value NOW() returns
    used,           \* connections checked out of connection_pool
    calls,          \* the upsert calls made directly, oldest first
    source,         \* what the source holds: the courses and their front pages
    pc,             \* where the run is: the call it makes next
    idx,            \* the index of the course (fetch) or item (persist) in turn
    result,         \* fetch_all's result, canvas_data once it has returned
    fetch_done,     \* fetch_all has returned
    stats,          \* the report of the run
    handler,        \* the except clause that ended the run
    http,           \* the last request and the source's response to it
    rets,           \* per entity type, what the upserts of the run returned
    exit_code,      \* the status main() exited with, -1 while it runs
    runs,           \* how many times the orchestrator was started
    prev,           \* the previous run: its data, its outcome, the store it left
    coll,           \* the collection a directly called fetch operation reads
    fetched         \* the last directly called fetch operation and its result

tables == <<courses, assignments, announcements, front_pages>>

storeVars == <<courses, assignments, announcements, front_pages, now, used>>

runVars == <<source, pc, idx, result, fetch_done, stats, handler, http, rets,
            exit_code, runs, prev>>

fetchVars == <<coll, fetched>>

vars == <<courses, assignments, announcements, front_pages, now, used, calls,
          source, pc, idx, result, fetch_done, stats, handler, http, rets,
          exit_code, runs, prev, coll, fetched>>

(***************************************************************************)
(* Bounds.                                                                 *)
(***************************************************************************)
MaxCalls == 2

MaxColl == 101

(***************************************************************************)
(* Python values: None, dicts with optional keys, dict.get, dict.update.   *)
(***************************************************************************)
None == "None"

Get(d, k) == IF k \in DOMAIN d THEN d[k] ELSE None

GetOr(d, k, default) == IF k \in DOMAIN d THEN d[k] ELSE default

Update(d, other) ==
    [k \in (DOMAIN d) \cup (DOMAIN other) |->
        IF k \in DOMAIN other THEN other[k] ELSE d[k]]

(***************************************************************************)
(* generate_content_hash: str(sorted(data.items())) hashed with SHA-256.   *)
(* The digest is kept as the string it is computed from: the list of       *)
(* (key, value) pairs in ascending key order. SHA-256 is taken to be       *)
(* injective on these strings. The argument is data.items(): the pairs in  *)
(* the order the keys were inserted into the dict.                         *)
(***************************************************************************)
\* The key names in use, in the order Python compares strings.
KeyOrder ==
    <<"body", "description", "due_at", "message", "name", "points_possible",
      "posted_at", "title", "updated_at">>

KeyRank ==
    [key \in {KeyOrder[i] : i \in 1..Len(KeyOrder)} |->
        CHOOSE i \in 1..Len(KeyOrder) : KeyOrder[i] = key]

\* item < other for two (key, value) pairs of one dict: the keys differ.
ItemLess(item, other) == KeyRank[item[1]] < KeyRank[other[1]]

RECURSIVE sorted(_)
sorted(items) ==
    IF items = <<>> THEN <<>>
    ELSE LET first == Head(items)
             rest  == sorted(Tail(items))
         IN  SelectSeq(rest, LAMBDA x : ItemLess(x, first))
                 \o <<first>>
                 \o SelectSeq(rest, LAMBDA x : ~ItemLess(x, first))

generate_content_hash_unsorted(items) == items

generate_content_hash(items) == sorted(items)

(***************************************************************************)
(* The connection pool: SimpleConnectionPool(1, 10, DATABASE_URL).         *)
(***************************************************************************)
PoolMax == 10

\* What can go wrong in one upsert call: the step that raises, and whether
\* the connection is so broken that rollback() raises as well.
FaultSteps == {"none", "getconn", "execute", "commit"}

Faults == [step : FaultSteps, rollback_fails : BOOLEAN]

\* get_connection(): TRUE when a connection was handed out. getconn()
\* raises when the pool is exhausted or the database cannot be reached.
get_connection(u, fault) == fault.step # "getconn" /\ u < PoolMax

\* The finally clause: "if conn: return_connection(conn)".
return_connection_leaky(conn, exc, u) == IF conn /\ ~exc THEN u - 1 ELSE u

return_connection(conn, exc, u) == IF conn THEN u - 1 ELSE u

(***************************************************************************)
(* INSERT ... ON CONFLICT (key) DO UPDATE SET <set_cols> = EXCLUDED.<col>  *)
(***************************************************************************)
OnConflictDoNothing(table, key, row, set_cols) ==
    IF \E old \in table : old[key] = row[key] THEN table ELSE table \cup {row}

OnConflictUpdate(table, key, row, set_cols) ==
    IF \E old \in table : old[key] = row[key]
    THEN { IF old[key] = row[key]
           THEN [c \in DOMAIN old |-> IF c \in set_cols THEN row[c] ELSE old[c]]
           ELSE old : old \in table }
    ELSE table \cup {row}

\* One upsert call, from "conn = None" to the end of "finally".
\*   required  the keys the function reads with data[...] (KeyError if absent)
\*   row       the row the query would write
\* Result: the table, the pool count, and "True", "False" or "raise".
Upsert(table, u, data, required, key, row, set_cols, fault) ==
    LET conn      == get_connection(u, fault)
        u1        == IF conn THEN u + 1 ELSE u
        key_error == ~(required \subseteq DOMAIN data)
        exc       == ~conn \/ key_error \/ fault.step \in {"execute", "commit"}
        raised    == exc /\ conn /\ fault.rollback_fails
    IN  [table |-> IF exc THEN table ELSE OnConflictUpdate(table, key, row, set_cols),
         used  |-> return_connection(conn, exc, u1),
         ret   |-> IF ~exc THEN "True" ELSE IF raised THEN "raise" ELSE "False"]

(***************************************************************************)
(* insert_course                                                           *)
(***************************************************************************)
CourseRow(course_data, t) ==
    [course_id      |-> Get(course_data, "course_id"),
     course_code    |-> Get(course_data, "course_code"),
     course_name    |-> Get(course_data, "course_name"),
     last_synced_at |-> t]

insert_course(table, u, t, course_data, fault) ==
    Upsert(table, u, course_data,
           {"course_id", "course_code", "course_name"},
           "course_id", CourseRow(course_data, t),
           {"course_code", "course_name", "last_synced_at"}, fault)

(***************************************************************************)
(* insert_assignment. The conflict branch also sets the column updated_at  *)
(* to NOW(); the INSERT does not name that column, its value in a new row  *)
(* is the schema's default, and the schema is not part of the repository:  *)
(* the column is left out of the rows.                                     *)
(***************************************************************************)
AssignmentHashData(assignment_data) ==
    <<(<<"name",            Get(assignment_data, "name")>>),
      (<<"due_at",          Get(assignment_data, "due_at")>>),
      (<<"description",     Get(assignment_data, "description")>>),
      (<<"points_possible", Get(assignment_data, "points_possible")>>)>>

AssignmentHash(assignment_data) ==
    generate_content_hash(AssignmentHashData(assignment_data))

AssignmentRow(assignment_data, t) ==
    [assignment_id     |-> Get(assignment_data, "assignment_id"),
     course_id         |-> Get(assignment_data, "course_id"),
     course_name       |-> Get(assignment_data, "course_name"),
     name              |-> Get(assignment_data, "name"),
     description       |-> Get(assignment_data, "description"),
     due_at            |-> Get(assignment_data, "due_at"),
     points_possible   |-> Get(assignment_data, "points_possible"),
     html_url          |-> Get(assignment_data, "html_url"),
     submission_status |-> Get(assignment_data, "submission_status"),
     content_hash      |-> AssignmentHash(assignment_data),
     last_synced_at    |-> t]

insert_assignment(table, u, t, assignment_data, fault) ==
    Upsert(table, u, assignment_data,
           {"assignment_id", "course_id", "course_name", "name"},
           "assignment_id", AssignmentRow(assignment_data, t),
           {"name", "description", "due_at", "points_possible",
            "submission_status", "content_hash", "last_synced_at"}, fault)

(***************************************************************************)
(* insert_announcement                                                     *)
(***************************************************************************)
AnnouncementHashData(announcement_data) ==
    <<(<<"title",     Get(announcement_data, "title")>>),
      (<<"message",   Get(announcement_data, "message")>>),
      (<<"posted_at", Get(announcement_data, "posted_at")>>)>>

AnnouncementHash(announcement_data) ==
    generate_content_hash(AnnouncementHashData(announcement_data))

AnnouncementRow(announcement_data, t) ==
    [announcement_id |-> Get(announcement_data, "id"),
     course_id       |-> Get(announcement_data, "course_id"),
     course_name     |-> Get(announcement_data, "course_name"),
     title           |-> GetOr(announcement_data, "title", "Untitled"),
     message         |-> Get(announcement_data, "message"),
     posted_at       |-> Get(announcement_data, "posted_at"),
     html_url        |-> Get(announcement_data, "html_url"),
     content_hash    |-> AnnouncementHash(announcement_data),
     last_synced_at  |-> t]

insert_announcement(table, u, t, announcement_data, fault) ==
    Upsert(table, u, announcement_data,
           {"id", "course_id", "course_name"},
           "announcement_id", AnnouncementRow(announcement_data, t),
           {"title", "message", "posted_at", "content_hash", "last_synced_at"},
           fault)

(***************************************************************************)
(* insert_front_page                                                       *)
(***************************************************************************)
FrontPageHashData(front_page_data) ==
    <<(<<"title",      Get(front_page_data, "title")>>),
      (<<"body",       Get(front_page_data, "body")>>),
      (<<"updated_at", Get(front_page_data, "updated_at")>>)>>

FrontPageHash(front_page_data) ==
    generate_content_hash(FrontPageHashData(front_page_data))

FrontPageRow(front_page_data, t) ==
    [course_id      |-> Get(front_page_data, "course_id"),
     course_name    |-> Get(front_page_data, "course_name"),
     title          |-> Get(front_page_data, "title"),
     body           |-> Get(front_page_data, "body"),
     updated_at     |-> Get(front_page_data, "updated_at"),
     content_hash   |-> FrontPageHash(front_page_data),
     last_synced_at |-> t]

insert_front_page(table, u, t, front_page_data, fault) ==
    Upsert(table, u, front_page_data,
           {"course_id", "course_name"},
           "course_id", FrontPageRow(front_page_data, t),
           {"title", "body", "updated_at", "content_hash", "last_synced_at"},
           fault)

(***************************************************************************)
(* Text. A Python string is a sequence of pieces; every digit is a piece   *)
(* of its own and no other piece holds a digit, so that "404" in s is a    *)
(* search for the pieces "4", "0", "4" in a row.                           *)
(***************************************************************************)
DigitChar == <<"0", "1", "2", "3", "4", "5", "6", "7", "8", "9">>

RECURSIVE Digits(_)
Digits(n) ==
    IF n < 10 THEN <<DigitChar[n + 1]>>
    ELSE Digits(n \div 10) \o <<DigitChar[(n % 10) + 1]>>

Contains(text, sub) ==
    \E k \in 1..(Len(text) - Len(sub) + 1) :
        SubSeq(text, k, k + Len(sub) - 1) = sub

(***************************************************************************)
(* JSON bodies: null, or a value (a list of objects, or an object).        *)
(***************************************************************************)
JsonNull == [null |-> TRUE]

Json(v) == [null |-> FALSE, data |-> v]

EmptyDict == <<>>

(***************************************************************************)
(* Results of the client's operations: a value, or a raised exception.     *)
(***************************************************************************)
Return(v) == [raised |-> FALSE, value |-> v]

Raise(class, text) == [raised |-> TRUE, class |-> class, text |-> text]

(***************************************************************************)
(* Endpoints: the text of the path and the per_page parameter (0: none).   *)
(***************************************************************************)
PerPage == 100

Endpoint(kind, path, per_page) == [kind |-> kind, path |-> path, per_page |-> per_page]

courses_endpoint ==
    Endpoint("courses", <<"/api/v", "1", "/users/self/favorites/courses">>, 0)

assignments_endpoint(course_id) ==
    Endpoint("assignments",
             <<"/api/v", "1", "/courses/">> \o Digits(course_id)
                 \o <<"/assignments?per_page=">> \o Digits(PerPage),
             PerPage)

announcements_endpoint(course_id) ==
    Endpoint("announcements",
             <<"/api/v", "1", "/announcements?context_codes[]=course_">>
                 \o Digits(course_id)
                 \o <<"&start_date=<date>&end_date=<date>&per_page=">>
                 \o Digits(PerPage),
             PerPage)

front_page_endpoint(course_id) ==
    Endpoint("front_page",
             <<"/api/v", "1", "/courses/">> \o Digits(course_id) \o <<"/front_page">>,
             0)

quizzes_endpoint(course_id) ==
    Endpoint("quizzes",
             <<"/api/v", "1", "/courses/">> \o Digits(course_id) \o <<"/quizzes">>,
             0)

modules_endpoint(course_id) ==
    Endpoint("modules",
             <<"/api/v", "1", "/courses/">> \o Digits(course_id) \o <<"/modules">>,
             0)

(***************************************************************************)
(* The source. It answers a request with one page of the collection, at    *)
(* most 100 items, and tells whether more pages follow; or with an HTTP    *)
(* error whose body is structured ({"errors": [{"message": ...}]}) or not; *)
(* or not at all. A request that names no per_page gets the source's       *)
(* default page size, which is no larger than the maximum: the model gives *)
(* such a request the maximum.                                             *)
(***************************************************************************)
SourceMaxPerPage == 100

Min(a, b) == IF a < b THEN a ELSE b

PageSizes(endpoint) ==
    IF endpoint.per_page = 0 THEN {SourceMaxPerPage}
    ELSE {Min(endpoint.per_page, SourceMaxPerPage)}

OkResponse(body, more) ==
    [kind |-> "http", status |-> 200, body |-> body, more |-> more]

PageResponses(endpoint, collection) ==
    {OkResponse(Json(SubSeq(collection, 1, Min(Len(collection), n))),
                Len(collection) > n) :
        n \in PageSizes(endpoint)}

ErrorBodies ==
    {[structured |-> FALSE],
     [structured |-> TRUE, message |-> <<"The specified resource does not exist.">>]}

HttpErrorResponses(statuses) ==
    {[kind |-> "http", status |-> st, body |-> b, more |-> FALSE] :
        st \in statuses, b \in ErrorBodies}

NetworkErrors == {"timeout", "connection"}

NetworkErrorResponses == {[kind |-> "network", error |-> e] : e \in NetworkErrors}

\* str() of the exceptions of requests.
HTTPErrorStr(status, endpoint) ==
    Digits(status)
        \o <<IF status < 500 THEN " Client Error: <reason> for url: <base_url>"
                             ELSE " Server Error: <reason> for url: <base_url>">>
        \o endpoint.path

RequestExceptionStr(error, endpoint) ==
    IF error = "timeout"
    THEN <<"HTTPSConnectionPool(host=<host>, port=", "4", "4", "3",
           "): Read timed out. (read timeout=", "3", "0", ")">>
    ELSE <<"HTTPSConnectionPool(host=<host>, port=", "4", "4", "3",
           "): Max retries exceeded with url: ">> \o endpoint.path

(***************************************************************************)
(* CanvasAgent._make_request                                               *)
(***************************************************************************)
_make_request(endpoint, response) ==
    IF response.kind = "network"
    THEN Raise("CanvasAPIError",
               <<"Network error: ">> \o RequestExceptionStr(response.error, endpoint))
    ELSE IF response.status >= 400
    THEN LET error_msg ==
                IF response.body.structured THEN response.body.message
                ELSE HTTPErrorStr(response.status, endpoint)
         IN  Raise("CanvasAPIError", <<"Canvas API error: ">> \o error_msg)
    ELSE Return(response.body)

(***************************************************************************)
(* CanvasAgent.get_active_courses, get_course_*                            *)
(***************************************************************************)
get_active_courses(response) ==
    LET r == _make_request(courses_endpoint, response)
    IN  IF r.raised THEN r
        ELSE IF r.value.null
        THEN Raise("TypeError", <<"'NoneType' object is not iterable">>)
        ELSE Return([k \in 1..Len(r.value.data) |->
                        [id          |-> r.value.data[k].id,
                         name        |-> GetOr(r.value.data[k], "name", "Unnamed Course"),
                         course_code |-> GetOr(r.value.data[k], "course_code", "N/A")]])

NoneToEmpty(r, empty) ==
    IF r.raised THEN r
    ELSE IF r.value.null THEN Return(empty)
    ELSE Return(r.value.data)

get_course_assignments(course_id, response) ==
    NoneToEmpty(_make_request(assignments_endpoint(course_id), response), <<>>)

get_course_announcements(course_id, response) ==
    NoneToEmpty(_make_request(announcements_endpoint(course_id), response), <<>>)

get_course_front_page(course_id, response) ==
    NoneToEmpty(_make_request(front_page_endpoint(course_id), response), EmptyDict)

get_course_quizzes(course_id, response) ==
    LET r == NoneToEmpty(_make_request(quizzes_endpoint(course_id), response), <<>>)
    IN  IF r.raised /\ r.class = "CanvasAPIError" /\ Contains(r.text, <<"4", "0", "4">>)
        THEN Return(<<>>)
        ELSE r

get_course_modules(course_id, response) ==
    NoneToEmpty(_make_request(modules_endpoint(course_id), response), <<>>)

(***************************************************************************)
(* The state of the parts a specification does not exercise.               *)
(***************************************************************************)
EntityTypes == {"courses", "assignments", "announcements", "front_pages"}

EmptyResult ==
    [courses |-> <<>>, assignments |-> <<>>, announcements |-> <<>>,
     front_pages |-> <<>>, quizzes |-> <<>>, modules |-> <<>>]

NewStats ==
    [courses |-> 0, assignments |-> 0, announcements |-> 0, front_pages |-> 0,
     errors |-> <<>>]

NoRequest == [endpoint |-> Endpoint("none", <<>>, 0), course_id |-> 0,
              response |-> OkResponse(JsonNull, FALSE)]

NoFetch == [op |-> "none", response |-> OkResponse(JsonNull, FALSE),
            result |-> Return(<<>>)]

NoRun == [result |-> EmptyResult, clean |-> FALSE, tables |-> <<{}, {}, {}, {}>>]

RunIdle ==
    /\ source = [courses |-> <<>>, front |-> {}]
    /\ exit_code = -1
    /\ runs = 0
    /\ prev = NoRun
    /\ pc = "idle"
    /\ idx = 0
    /\ result = EmptyResult
    /\ fetch_done = FALSE
    /\ stats = NewStats
    /\ handler = "none"
    /\ http = NoRequest
    /\ rets = [t \in EntityTypes |-> <<>>]

FetchIdle ==
    /\ coll = <<>>
    /\ fetched = NoFetch

(***************************************************************************)
(* SpecStorage: the upserts called directly, as tests/test_storage.py      *)
(* does, on a store that is empty or holds rows of an earlier sync.        *)
(***************************************************************************)
CourseInputs ==
    {[course_id |-> i, course_code |-> "cc", course_name |-> n] :
        i \in {1, 404}, n \in {"n1", "n2"}}

AssignmentInputs ==
    {[assignment_id |-> 11, course_id |-> 1, course_name |-> "n1", name |-> n,
      description |-> "d", due_at |-> None, points_possible |-> "10",
      html_url |-> u, submission_status |-> "online"] :
        n \in {"hw1", "hw2"}, u \in {"u1", "u2"}}
    \cup {[assignment_id |-> 12, course_id |-> 1, course_name |-> "n1", name |-> "hw1"],
          [assignment_id |-> 12, course_id |-> 1, course_name |-> "n1"]}

AnnouncementInputs ==
    {[id |-> 21, course_id |-> 1, course_name |-> "n1", title |-> n,
      message |-> "m", posted_at |-> "p", html_url |-> u] :
        n \in {"t1", "t2"}, u \in {"u1", "u2"}}
    \cup {[id |-> 22, course_id |-> 1, course_name |-> "n1"],
          [announcement_id |-> 22, course_id |-> 1, course_name |-> "n1", title |-> "t1"]}

FrontPageInputs ==
    {[course_id |-> i, course_name |-> "n1", title |-> n, body |-> "b",
      updated_at |-> "p"] : i \in {1, 404}, n \in {"w1", "w2"}}

\* The rows an earlier sync, at time 0, left in the store.
SeedCourses ==
    {CourseRow([course_id |-> 1, course_code |-> "cc", course_name |-> "n1"], 0)}

SeedAssignments ==
    {AssignmentRow([assignment_id |-> 11, course_id |-> 1, course_name |-> "n1",
                    name |-> "hw1", description |-> "d", due_at |-> None,
                    points_possible |-> "10", html_url |-> "u1",
                    submission_status |-> "online"], 0)}

SeedAnnouncements ==
    {AnnouncementRow([id |-> 21, course_id |-> 1, course_name |-> "n1",
                      title |-> "t1", message |-> "m", posted_at |-> "p",
                      html_url |-> "u1"], 0)}

SeedFrontPages ==
    {FrontPageRow([course_id |-> 1, course_name |-> "n1", title |-> "w1",
                   body |-> "b", updated_at |-> "p"], 0)}

InitStore ==
    /\ \/ /\ courses = {}
          /\ assignments = {}
          /\ announcements = {}
          /\ front_pages = {}
       \/ /\ courses = SeedCourses
          /\ assignments = SeedAssignments
          /\ announcements = SeedAnnouncements
          /\ front_pages = SeedFrontPages
    /\ now = 1
    /\ used = 0

InitStorage ==
    /\ InitStore
    /\ calls = <<>>
    /\ RunIdle
    /\ FetchIdle

Called(fn, arg, ret) == Append(calls, [fn |-> fn, arg |-> arg, ret |-> ret])

CallInsertCourse ==
    /\ Len(calls) < MaxCalls
    /\ \E course_data \in CourseInputs, fault \in Faults :
        LET r == insert_course(courses, used, now, course_data, fault)
        IN  /\ courses' = r.table
            /\ used' = r.used
            /\ calls' = Called("insert_course", course_data, r.ret)
    /\ now' = now + 1
    /\ UNCHANGED <<assignments, announcements, front_pages>>
    /\ UNCHANGED <<runVars, fetchVars>>

CallInsertAssignment ==
    /\ Len(calls) < MaxCalls
    /\ \E assignment_data \in AssignmentInputs, fault \in Faults :
        LET r == insert_assignment(assignments, used, now, assignment_data, fault)
        IN  /\ assignments' = r.table
            /\ used' = r.used
            /\ calls' = Called("insert_assignment", assignment_data, r.ret)
    /\ now' = now + 1
    /\ UNCHANGED <<courses, announcements, front_pages>>
    /\ UNCHANGED <<runVars, fetchVars>>

CallInsertAnnouncement ==
    /\ Len(calls) < MaxCalls
    /\ \E announcement_data \in AnnouncementInputs, fault \in Faults :
        LET r == insert_announcement(announcements, used, now, announcement_data, fault)
        IN  /\ announcements' = r.table
            /\ used' = r.used
            /\ calls' = Called("insert_announcement", announcement_data, r.ret)
    /\ now' = now + 1
    /\ UNCHANGED <<courses, assignments, front_pages>>
    /\ UNCHANGED <<runVars, fetchVars>>

CallInsertFrontPage ==
    /\ Len(calls) < MaxCalls
    /\ \E front_page_data \in FrontPageInputs, fault \in Faults :
        LET r == insert_front_page(front_pages, used, now, front_page_data, fault)
        IN  /\ front_pages' = r.table
            /\ used' = r.used
            /\ calls' = Called("insert_front_page", front_page_data, r.ret)
    /\ now' = now + 1
    /\ UNCHANGED <<courses, assignments, announcements>>
    /\ UNCHANGED <<runVars, fetchVars>>

NextStorage ==
    \/ CallInsertCourse
    \/ CallInsertAssignment
    \/ CallInsertAnnouncement
    \/ CallInsertFrontPage

SpecStorage == InitStorage /\ [][NextStorage]_vars

(***************************************************************************)
(* Properties of the upserts (SpecStorage).                                *)
(***************************************************************************)
TableOf(fn) ==
    CASE fn = "insert_course"       -> courses
      [] fn = "insert_assignment"   -> assignments
      [] fn = "insert_announcement" -> announcements
      [] fn = "insert_front_page"   -> front_pages

IdentityColumn(fn) ==
    CASE fn = "insert_course"       -> "course_id"
      [] fn = "insert_assignment"   -> "assignment_id"
      [] fn = "insert_announcement" -> "announcement_id"
      [] fn = "insert_front_page"   -> "course_id"

\* The column a key of the input record is written to.
ColumnOf(fn, k) ==
    IF fn = "insert_announcement" /\ k = "id" THEN "announcement_id" ELSE k

IdentityOf(fn, r) ==
    IF fn = "insert_announcement" THEN r["id"] ELSE r[IdentityColumn(fn)]

RowsIn(table, fn, r) ==
    {row \in table : row[IdentityColumn(fn)] = IdentityOf(fn, r)}

RowsOf(fn, r) == RowsIn(TableOf(fn), fn, r)

TableOfNext(fn) ==
    CASE fn = "insert_course"       -> courses'
      [] fn = "insert_assignment"   -> assignments'
      [] fn = "insert_announcement" -> announcements'
      [] fn = "insert_front_page"   -> front_pages'

\* The content fields the data model lists for each entity type.
ContentColumns(fn) ==
    CASE fn = "insert_course"       -> {"course_code", "course_name"}
      [] fn = "insert_assignment"   -> {"name", "description", "due_at",
                                        "points_possible", "html_url",
                                        "submission_status"}
      [] fn = "insert_announcement" -> {"title", "message", "posted_at", "html_url"}
      [] fn = "insert_front_page"   -> {"title", "body", "updated_at"}

\* The row the upsert builds from record r at time t.
NewRow(fn, r, t) ==
    CASE fn = "insert_course"       -> CourseRow(r, t)
      [] fn = "insert_assignment"   -> AssignmentRow(r, t)
      [] fn = "insert_announcement" -> AnnouncementRow(r, t)
      [] fn = "insert_front_page"   -> FrontPageRow(r, t)

LastCall == calls[Len(calls)]

\* C1: after two successive successful calls of one upsert with the same
\* record r, the store holds exactly one row with r's identity, and every
\* field of r is what that row holds.
UpsertIdempotence ==
    (/\ Len(calls) >= 2
     /\ calls[Len(calls) - 1].fn = LastCall.fn
     /\ calls[Len(calls) - 1].arg = LastCall.arg
     /\ calls[Len(calls) - 1].ret = "True"
     /\ LastCall.ret = "True")
    => LET fn == LastCall.fn
           r  == LastCall.arg
       IN  /\ Cardinality(RowsOf(fn, r)) = 1
           /\ \A row \in RowsOf(fn, r) :
                \A k \in DOMAIN r : row[ColumnOf(fn, k)] = r[k]

\* C2: a successful upsert of a record whose identity is already stored
\* leaves every content field of the data model, and the fingerprint, at
\* the new record's value and sets last-synced-at to the time of the call.
OverwriteStep ==
    (/\ calls' # calls
     /\ calls'[Len(calls')].ret = "True"
     /\ RowsOf(calls'[Len(calls')].fn, calls'[Len(calls')].arg) # {})
    => LET fn  == calls'[Len(calls')].fn
           r   == calls'[Len(calls')].arg
           new == NewRow(fn, r, now)
       IN  \A row \in RowsIn(TableOfNext(fn), fn, r) :
              /\ \A c \in ContentColumns(fn) : row[c] = new[c]
              /\ fn # "insert_course" => row.content_hash = new.content_hash
              /\ row.last_synced_at = now

OverwriteOnConflict == [][OverwriteStep]_vars

\* C5: an upsert call that fails at any step leaves the store as it was,
\* returns False and raises nothing.
FailureContainedStep ==
    (calls' # calls /\ calls'[Len(calls')].ret # "True")
    => /\ tables' = tables
       /\ calls'[Len(calls')].ret = "False"

UpsertFailureContained == [][FailureContainedStep]_vars

\* C6: after any sequence of upsert calls no connection is checked out,
\* as before the first call, and the count never exceeds the pool maximum.
NoConnectionLeak == used = 0 /\ used <= PoolMax

\* An upsert whose statement failed on a connection that could not even be
\* rolled back has acted, after one that returned False.
NoConnectionLeakWitness ==
    /\ used = 0
    /\ \E i, j \in 1..Len(calls) : calls[i].ret = "raise" /\ calls[j].ret = "False"

(***************************************************************************)
(* SpecFetch: the fetch operations called one by one, as                   *)
(* tests/test_canvas.py does, on a source collection of 0..MaxColl items.  *)
(***************************************************************************)
CourseIds == {1, 404}

ErrorStatuses == {404, 500}

\* Every answer the source can give to a request for a collection.
Responses(endpoint, collection) ==
    PageResponses(endpoint, collection)
        \cup {OkResponse(JsonNull, FALSE)}
        \cup HttpErrorResponses(ErrorStatuses)
        \cup NetworkErrorResponses

InitFetch ==
    /\ courses = {}
    /\ assignments = {}
    /\ announcements = {}
    /\ front_pages = {}
    /\ now = 1
    /\ used = 0
    /\ calls = <<>>
    /\ RunIdle
    /\ coll \in {[k \in 1..n |-> [id |-> k]] : n \in 0..MaxColl}
    /\ fetched = NoFetch

Fetched(op, response, r) == [op |-> op, response |-> response, result |-> r]

TestGetActiveCourses ==
    /\ \E response \in Responses(courses_endpoint, coll) :
        fetched' = Fetched("get_active_courses", response,
                           get_active_courses(response))
    /\ UNCHANGED <<storeVars, calls, runVars, coll>>

TestGetCourseAssignments ==
    /\ \E course_id \in CourseIds :
       \E response \in Responses(assignments_endpoint(course_id), coll) :
        fetched' = Fetched("get_course_assignments", response,
                           get_course_assignments(course_id, response))
    /\ UNCHANGED <<storeVars, calls, runVars, coll>>

TestGetCourseAnnouncements ==
    /\ \E course_id \in CourseIds :
       \E response \in Responses(announcements_endpoint(course_id), coll) :
        fetched' = Fetched("get_course_announcements", response,
                           get_course_announcements(course_id, response))
    /\ UNCHANGED <<storeVars, calls, runVars, coll>>

TestGetCourseQuizzes ==
    /\ \E course_id \in CourseIds :
       \E response \in Responses(quizzes_endpoint(course_id), coll) :
        fetched' = Fetched("get_course_quizzes", response,
                           get_course_quizzes(course_id, response))
    /\ UNCHANGED <<storeVars, calls, runVars, coll>>

TestGetCourseModules ==
    /\ \E course_id \in CourseIds :
       \E response \in Responses(modules_endpoint(course_id), coll) :
        fetched' = Fetched("get_course_modules", response,
                           get_course_modules(course_id, response))
    /\ UNCHANGED <<storeVars, calls, runVars, coll>>

NextFetch ==
    \/ TestGetActiveCourses
    \/ TestGetCourseAssignments
    \/ TestGetCourseAnnouncements
    \/ TestGetCourseQuizzes
    \/ TestGetCourseModules

SpecFetch == InitFetch /\ [][NextFetch]_vars

\* C10: a fetch operation the source answered without error returns every
\* item of the source's collection, whatever its size.
PaginationComplete ==
    (/\ fetched.op # "none"
     /\ fetched.response.kind = "http"
     /\ fetched.response.status = 200
     /\ ~fetched.response.body.null)
    => /\ ~fetched.result.raised
       /\ Len(fetched.result.value) = Len(coll)
       /\ \A k \in 1..Len(coll) : fetched.result.value[k].id = coll[k].id

(***************************************************************************)
(* Spec: one run of sync_canvas_to_database.                               *)
(* What the source holds: one or two favourite courses (or none), each     *)
(* with or without a front page; assignments, announcements, quizzes and   *)
(* modules per course.                                                     *)
(***************************************************************************)
SourceCourse1 == [id |-> 1, name |-> "n1", course_code |-> "cc"]

SourceCourse2 == [id |-> 404, name |-> "n2"]

Sources ==
    [courses : {<<>>, <<SourceCourse1>>, <<SourceCourse1, SourceCourse2>>},
     front   : SUBSET CourseIds]

SourceAssignments(course_id) ==
    IF course_id = 1
    THEN <<[id |-> 11, name |-> "hw1", description |-> "d", due_at |-> None,
            points_possible |-> "10", html_url |-> "u1",
            submission_types |-> "online"],
           [id |-> 12, name |-> "hw2"]>>
    ELSE <<[id |-> 13, description |-> "d"]>>

SourceAnnouncements(course_id) ==
    IF course_id = 1
    THEN <<[id |-> 21, title |-> "t1", message |-> "m", posted_at |-> "p",
            html_url |-> "u1"]>>
    ELSE <<>>

SourceFrontPage(course_id) ==
    [title |-> "w1", body |-> "b", updated_at |-> "p", url |-> "home"]

SourceQuizzes(course_id) ==
    IF course_id = 1 THEN <<[id |-> 31, title |-> "q1"]>> ELSE <<>>

SourceModules(course_id) == <<[id |-> 41, name |-> "m1"]>>

\* The answers to a front-page request: the page; for a course without a
\* front page null, an empty object or a not-found response.
FrontPageResponses(course_id) ==
    (IF course_id \in source.front
     THEN {OkResponse(Json(SourceFrontPage(course_id)), FALSE)}
     ELSE {OkResponse(JsonNull, FALSE), OkResponse(Json(EmptyDict), FALSE)})
        \cup HttpErrorResponses(ErrorStatuses)
        \cup NetworkErrorResponses

Init ==
    /\ InitStore
    /\ calls = <<>>
    /\ source \in Sources
    /\ pc = "get_active_courses"
    /\ idx = 0
    /\ result = EmptyResult
    /\ fetch_done = FALSE
    /\ stats = NewStats
    /\ handler = "none"
    /\ http = NoRequest
    /\ rets = [t \in EntityTypes |-> <<>>]
    /\ exit_code = -1
    /\ runs = 1
    /\ prev = NoRun
    /\ FetchIdle

Request(endpoint, course_id, response) ==
    [endpoint |-> endpoint, course_id |-> course_id, response |-> response]

(***************************************************************************)
(* The except clauses of sync_canvas_to_database.                          *)
(***************************************************************************)
HandlerOf(e) == IF e.class = "CanvasAPIError" THEN "CanvasAPIError" ELSE "Exception"

handle_exception_silent(st, e) == st

handle_exception(st, e) ==
    [st EXCEPT !.errors =
        Append(@, (IF e.class = "CanvasAPIError"
                   THEN <<"Canvas API error: ">>
                   ELSE <<"Unexpected error during sync: ">>) \o e.text)]

\* The exception e leaves the try block.
Except(e) ==
    /\ stats' = handle_exception(stats, e)
    /\ handler' = HandlerOf(e)
    /\ pc' = "done"
    /\ UNCHANGED idx

(***************************************************************************)
(* The loops of the persistence phase, in the order of the code. An empty  *)
(* list is passed over; after the last loop the run returns stats.         *)
(***************************************************************************)
PersistOrder_assignments_first ==
    <<[pc |-> "insert_assignment",   list |-> "assignments"],
      [pc |-> "insert_course",       list |-> "courses"],
      [pc |-> "insert_announcement", list |-> "announcements"],
      [pc |-> "insert_front_page",   list |-> "front_pages"]>>

PersistOrder ==
    <<[pc |-> "insert_course",       list |-> "courses"],
      [pc |-> "insert_assignment",   list |-> "assignments"],
      [pc |-> "insert_announcement", list |-> "announcements"],
      [pc |-> "insert_front_page",   list |-> "front_pages"]>>

RECURSIVE LoopPosition(_, _, _)
LoopPosition(data, p, k) ==
    IF p > Len(PersistOrder) THEN [pc |-> "done", idx |-> 0]
    ELSE IF k <= Len(data[PersistOrder[p].list])
         THEN [pc |-> PersistOrder[p].pc, idx |-> k]
         ELSE LoopPosition(data, p + 1, 1)

(***************************************************************************)
(* CanvasAgent.fetch_all, one request at a time.                           *)
(***************************************************************************)
course_context(course) ==
    [course_id |-> course.id, course_name |-> course.name,
     course_code |-> course.course_code]

Annotated(items, course) ==
    [k \in 1..Len(items) |-> Update(items[k], course_context(course))]

\* fetch_all returns: canvas_data is set and the first loop begins.
FetchAllReturns(data) ==
    /\ result' = data
    /\ fetch_done' = TRUE
    /\ pc' = LoopPosition(data, 1, 1).pc
    /\ idx' = LoopPosition(data, 1, 1).idx
    /\ UNCHANGED <<stats, handler>>

FetchActiveCourses ==
    /\ pc = "get_active_courses"
    /\ \E response \in Responses(courses_endpoint, source.courses) :
        LET r == get_active_courses(response)
        IN  /\ http' = Request(courses_endpoint, 0, response)
            /\ IF r.raised
               THEN Except(r) /\ UNCHANGED <<result, fetch_done>>
               ELSE IF Len(r.value) = 0
               THEN FetchAllReturns([result EXCEPT !.courses = r.value])
               ELSE /\ result' = [result EXCEPT !.courses = r.value]
                    /\ pc' = "get_course_assignments"
                    /\ idx' = 1
                    /\ UNCHANGED <<fetch_done, stats, handler>>
    /\ UNCHANGED <<storeVars, calls, source, exit_code, runs, prev, rets, fetchVars>>

FetchCourseAssignments ==
    /\ pc = "get_course_assignments"
    /\ LET course == result.courses[idx]
       IN  \E response \in Responses(assignments_endpoint(course.id),
                                     SourceAssignments(course.id)) :
            LET r == get_course_assignments(course.id, response)
            IN  /\ http' = Request(assignments_endpoint(course.id), course.id, response)
                /\ IF r.raised
                   THEN Except(r) /\ UNCHANGED <<result, fetch_done>>
                   ELSE /\ result' = [result EXCEPT !.assignments =
                                         @ \o Annotated(r.value, course)]
                        /\ pc' = "get_course_announcements"
                        /\ UNCHANGED <<idx, fetch_done, stats, handler>>
    /\ UNCHANGED <<storeVars, calls, source, exit_code, runs, prev, rets, fetchVars>>

FetchCourseAnnouncements ==
    /\ pc = "get_course_announcements"
    /\ LET course == result.courses[idx]
       IN  \E response \in Responses(announcements_endpoint(course.id),
                                     SourceAnnouncements(course.id)) :
            LET r == get_course_announcements(course.id, response)
            IN  /\ http' = Request(announcements_endpoint(course.id), course.id, response)
                /\ IF r.raised
                   THEN Except(r) /\ UNCHANGED <<result, fetch_done>>
                   ELSE /\ result' = [result EXCEPT !.announcements =
                                         @ \o Annotated(r.value, course)]
                        /\ pc' = "get_course_front_page"
                        /\ UNCHANGED <<idx, fetch_done, stats, handler>>
    /\ UNCHANGED <<storeVars, calls, source, exit_code, runs, prev, rets, fetchVars>>

FetchCourseFrontPage ==
    /\ pc = "get_course_front_page"
    /\ LET course == result.courses[idx]
       IN  \E response \in FrontPageResponses(course.id) :
            LET r == get_course_front_page(course.id, response)
            IN  /\ http' = Request(front_page_endpoint(course.id), course.id, response)
                /\ IF r.raised
                   THEN Except(r) /\ UNCHANGED <<result, fetch_done>>
                   ELSE /\ result' =
                              IF DOMAIN r.value # {}
                              THEN [result EXCEPT !.front_pages =
                                       Append(@, Update(r.value, course_context(course)))]
                              ELSE result
                        /\ pc' = "get_course_quizzes"
                        /\ UNCHANGED <<idx, fetch_done, stats, handler>>
    /\ UNCHANGED <<storeVars, calls, source, exit_code, runs, prev, rets, fetchVars>>

FetchCourseQuizzes ==
    /\ pc = "get_course_quizzes"
    /\ LET course == result.courses[idx]
       IN  \E response \in Responses(quizzes_endpoint(course.id),
                                     SourceQuizzes(course.id)) :
            LET r == get_course_quizzes(course.id, response)
            IN  /\ http' = Request(quizzes_endpoint(course.id), course.id, response)
                /\ IF r.raised
                   THEN Except(r) /\ UNCHANGED <<result, fetch_done>>
                   ELSE /\ result' = [result EXCEPT !.quizzes =
                                         @ \o Annotated(r.value, course)]
                        /\ pc' = "get_course_modules"
                        /\ UNCHANGED <<idx, fetch_done, stats, handler>>
    /\ UNCHANGED <<storeVars, calls, source, exit_code, runs, prev, rets, fetchVars>>

FetchCourseModules ==
    /\ pc = "get_course_modules"
    /\ LET course == result.courses[idx]
       IN  \E response \in Responses(modules_endpoint(course.id),
                                     SourceModules(course.id)) :
            LET r == get_course_modules(course.id, response)
            IN  /\ http' = Request(modules_endpoint(course.id), course.id, response)
                /\ IF r.raised
                   THEN Except(r) /\ UNCHANGED <<result, fetch_done>>
                   ELSE IF idx = Len(result.courses)
                   THEN FetchAllReturns([result EXCEPT !.modules =
                                            @ \o Annotated(r.value, course)])
                   ELSE /\ result' = [result EXCEPT !.modules =
                                         @ \o Annotated(r.value, course)]
                        /\ pc' = "get_course_assignments"
                        /\ idx' = idx + 1
                        /\ UNCHANGED <<fetch_done, stats, handler>>
    /\ UNCHANGED <<storeVars, calls, source, exit_code, runs, prev, rets, fetchVars>>

(***************************************************************************)
(* The persistence loops of sync_canvas_to_database, one item at a time:   *)
(* the field mapping, the upsert, the counter.                             *)
(***************************************************************************)
count_success_or_error(st, type, ret) ==
    IF ret = "True" THEN [st EXCEPT ![type] = @ + 1]
    ELSE [st EXCEPT !.errors = Append(@, <<"Error inserting ", type>>)]

\* "if insert_x(x_data): stats['xs'] += 1"
count_success(st, type, ret) ==
    IF ret = "True" THEN [st EXCEPT ![type] = @ + 1] ELSE st

AfterUpsert_once(p, type, ret) ==
    /\ rets' = [rets EXCEPT ![type] = Append(@, ret)]
    /\ now' = now + 1
    /\ stats' = count_success(stats, type, ret)
    /\ pc' = "done"
    /\ idx' = 0
    /\ UNCHANGED handler

\* After the upsert of item idx of loop p returned or raised.
AfterUpsert(p, type, ret) ==
    /\ rets' = [rets EXCEPT ![type] = Append(@, ret)]
    /\ now' = now + 1
    /\ IF ret = "raise"
       THEN Except(Raise("InterfaceError", <<"connection already closed">>))
       ELSE /\ stats' = count_success(stats, type, ret)
            /\ pc' = LoopPosition(result, p, idx + 1).pc
            /\ idx' = LoopPosition(result, p, idx + 1).idx
            /\ UNCHANGED handler

course_data_of(course) ==
    [course_id   |-> course.id,
     course_code |-> course.course_code,
     course_name |-> course.name]

assignment_data_of(assignment) ==
    [assignment_id     |-> assignment.id,
     course_id         |-> assignment.course_id,
     course_name       |-> assignment.course_name,
     name              |-> GetOr(assignment, "name", "Untitled"),
     description       |-> Get(assignment, "description"),
     due_at            |-> Get(assignment, "due_at"),
     points_possible   |-> Get(assignment, "points_possible"),
     html_url          |-> Get(assignment, "html_url"),
     submission_status |-> Get(assignment, "submission_types")]

announcement_data_of(announcement) ==
    [id          |-> announcement.id,
     course_id   |-> announcement.course_id,
     course_name |-> announcement.course_name,
     title       |-> GetOr(announcement, "title", "Untitled"),
     message     |-> Get(announcement, "message"),
     posted_at   |-> Get(announcement, "posted_at"),
     html_url    |-> Get(announcement, "html_url")]

front_page_data_of(front_page) ==
    [course_id   |-> front_page.course_id,
     course_name |-> front_page.course_name,
     title       |-> Get(front_page, "title"),
     body        |-> Get(front_page, "body"),
     updated_at  |-> Get(front_page, "updated_at")]

PersistCourse ==
    /\ pc = "insert_course"
    /\ \E fault \in Faults :
        LET r == insert_course(courses, used, now,
                               course_data_of(result.courses[idx]), fault)
        IN  /\ courses' = r.table
            /\ used' = r.used
            /\ AfterUpsert(1, "courses", r.ret)
    /\ UNCHANGED <<assignments, announcements, front_pages, calls, source, exit_code, runs, prev,
                   result, fetch_done, http, fetchVars>>

PersistAssignment ==
    /\ pc = "insert_assignment"
    /\ \E fault \in Faults :
        LET r == insert_assignment(assignments, used, now,
                                   assignment_data_of(result.assignments[idx]), fault)
        IN  /\ assignments' = r.table
            /\ used' = r.used
            /\ AfterUpsert(2, "assignments", r.ret)
    /\ UNCHANGED <<courses, announcements, front_pages, calls, source, exit_code, runs, prev,
                   result, fetch_done, http, fetchVars>>

PersistAnnouncement ==
    /\ pc = "insert_announcement"
    /\ \E fault \in Faults :
        LET r == insert_announcement(announcements, used, now,
                                     announcement_data_of(result.announcements[idx]),
                                     fault)
        IN  /\ announcements' = r.table
            /\ used' = r.used
            /\ AfterUpsert(3, "announcements", r.ret)
    /\ UNCHANGED <<courses, assignments, front_pages, calls, source, exit_code, runs, prev,
                   result, fetch_done, http, fetchVars>>

PersistFrontPage ==
    /\ pc = "insert_front_page"
    /\ \E fault \in Faults :
        LET r == insert_front_page(front_pages, used, now,
                                   front_page_data_of(result.front_pages[idx]), fault)
        IN  /\ front_pages' = r.table
            /\ used' = r.used
            /\ AfterUpsert(4, "front_pages", r.ret)
    /\ UNCHANGED <<courses, assignments, announcements, calls, source, exit_code, runs, prev,
                   result, fetch_done, http, fetchVars>>

(***************************************************************************)
(* main(): the exit status after sync_canvas_to_database returned stats.   *)
(***************************************************************************)
exit_status_zero(st) == 0

exit_status(st) == IF st.errors # <<>> THEN 1 ELSE 0

Exit ==
    /\ pc = "done"
    /\ pc' = "exit"
    /\ exit_code' = exit_status(stats)
    /\ UNCHANGED <<storeVars, calls, source, idx, result, fetch_done, stats,
                   handler, http, rets, runs, prev, fetchVars>>

Next ==
    \/ FetchActiveCourses
    \/ FetchCourseAssignments
    \/ FetchCourseAnnouncements
    \/ FetchCourseFrontPage
    \/ FetchCourseQuizzes
    \/ FetchCourseModules
    \/ PersistCourse
    \/ PersistAssignment
    \/ PersistAnnouncement
    \/ PersistFrontPage
    \/ Exit

Spec == Init /\ [][Next]_vars

(***************************************************************************)
(* Properties of the run (Spec).                                           *)
(***************************************************************************)
Returned(type, ret) == {k \in 1..Len(rets[type]) : rets[type][k] = ret}

RunReturned == pc = "done" /\ handler = "none"

FetchFailed == pc = "done" /\ ~fetch_done

\* C3: in a run whose fetch succeeded, once an upsert of a type has
\* returned failure the upserts of all later items of that type are still
\* called, and the type's count is the number of upserts that returned
\* success.
PartialFailureIsolation ==
    (pc = "done" /\ fetch_done)
    => \A t \in EntityTypes :
          /\ Returned(t, "False") # {} => Len(rets[t]) = Len(result[t])
          /\ stats[t] = Cardinality(Returned(t, "True"))

\* C4 as stated: when the run has returned, every upsert that returned
\* failure has an entry in the report's errors.
NonFatalErrorsReported ==
    RunReturned
    => Len(stats.errors) =
          Cardinality(Returned("courses", "False"))
        + Cardinality(Returned("assignments", "False"))
        + Cardinality(Returned("announcements", "False"))
        + Cardinality(Returned("front_pages", "False"))

\* C4 as amended: an upsert that returns failure adds no entry to the
\* report's errors and does not end the run; it shows only as an omission
\* from its type's count. The report holds one entry exactly when an
\* exception ended the run, and none otherwise.
FailureOmittedState ==
    /\ Len(stats.errors) = (IF handler = "none" THEN 0 ELSE 1)
    /\ \A t \in EntityTypes :
          stats[t] = Len(rets[t]) - Cardinality(Returned(t, "False"))
                                  - Cardinality(Returned(t, "raise"))
    /\ RunReturned => \A t \in EntityTypes : Len(rets[t]) = Len(result[t])

FailureOmittedStep ==
    \A t \in EntityTypes :
        (/\ Len(rets'[t]) = Len(rets[t]) + 1
         /\ rets'[t][Len(rets'[t])] = "False")
        => /\ stats' = stats
           /\ handler' = "none"
           /\ <<pc', idx'>> # <<pc, idx>>

PersistenceFailureOmitted == []FailureOmittedState /\ [][FailureOmittedStep]_vars

\* A run that returned although the upsert of an assignment had failed.
PersistenceFailureOmittedWitness ==
    /\ RunReturned
    /\ Returned("assignments", "False") # {}
    /\ Returned("assignments", "True") # {}

NotFoundAsEmpty ==
    (/\ http.endpoint.kind = "quizzes"
     /\ http.response.kind = "http"
     /\ http.response.status = 404)
    => handler = "none" /\ pc = "get_course_modules"

\* The source's answer for a course that has no front page.
FrontPageAbsent ==
    /\ http.endpoint.kind = "front_page"
    /\ http.course_id \notin source.front
    /\ http.response.kind = "http"
    /\ http.response.status \in {200, 404}

\* C9: for a course without a front page the run records no error and goes
\* on; the front-page upsert is called for exactly the courses whose front
\* page is present and non-empty.
OptionalFrontPage ==
    /\ FrontPageAbsent => handler = "none" /\ pc = "get_course_quizzes"
    /\ RunReturned =>
          Len(rets.front_pages) =
              Cardinality({k \in 1..Len(result.courses) :
                              result.courses[k].id \in source.front})

(***************************************************************************)
(* Active-course selection (SpecFetch).  coll is the principal's favorite  *)
(* subset; ActiveCourses are the courses the principal is enrolled in.     *)
(***************************************************************************)
ActiveCourses == <<[id |-> 1], [id |-> 404]>>

CourseIdsOf(list) == [k \in 1..Len(list) |-> list[k].id]

\* The favorites request was answered with the whole favorite subset.
FavoritesServed ==
    /\ fetched.op = "get_active_courses"
    /\ fetched.response.kind = "http"
    /\ fetched.response.status = 200
    /\ ~fetched.response.body.null
    /\ fetched.response.body.data = coll

\* C11: get_active_courses returns the favorite courses when a favorite
\* subset is set, and all active courses of the principal when none is.
ActiveCourseSelection ==
    FavoritesServed
    => /\ ~fetched.result.raised
       /\ CourseIdsOf(fetched.result.value) =
              IF coll # <<>> THEN CourseIdsOf(coll)
                             ELSE CourseIdsOf(ActiveCourses)

(***************************************************************************)
(* Exit contract (Spec).                                                   *)
(***************************************************************************)
\* An upsert let an exception escape into the run.
UpsertRaised == \E type \in EntityTypes : Returned(type, "raise") # {}

\* An upsert reported failure by returning False.
RecordFailed == \E type \in EntityTypes : Returned(type, "False") # {}

\* The source was unreachable or rejected a request, or an exception was
\* not caught below sync_canvas_to_database.
PipelineError == ~fetch_done \/ UpsertRaised

HashedFields(fn) ==
    CASE fn = "insert_course"       -> {}
      [] fn = "insert_assignment"   -> {"name", "due_at", "description",
                                        "points_possible"}
      [] fn = "insert_announcement" -> {"title", "message", "posted_at"}
      [] fn = "insert_front_page"   -> {"title", "body", "updated_at"}

\* hash_data.items() of the upsert fn called with record r.
HashData(fn, r) ==
    CASE fn = "insert_assignment"   -> AssignmentHashData(r)
      [] fn = "insert_announcement" -> AnnouncementHashData(r)
      [] fn = "insert_front_page"   -> FrontPageHashData(r)

\* The orders in which the keys of a dict of n keys can have been inserted;
\* hash_data has three or four keys.
InsertionOrders == [n \in 3..4 |-> Permutations(1..n)]

\* The dicts that hold the pairs of items, one per order of insertion.
Reordered(items) ==
    {[i \in 1..Len(items) |-> items[p[i]]] : p \in InsertionOrders[Len(items)]}

HashingCalls == {k \in 1..Len(calls) : calls[k].fn # "insert_course"}

SameHashedFields(fn, r, s) ==
    \A f \in HashedFields(fn) : Get(r, f) = Get(s, f)

\* C13: generate_content_hash gives one digest for the same pairs in any
\* order of insertion, and two records of one type that agree on the hashed
\* fields are stored with the same fingerprint. Stated of the latest call,
\* against every call before it.
FingerprintDeterminism ==
    /\ \A k \in HashingCalls \cap {Len(calls)} :
        LET stored == NewRow(calls[k].fn, calls[k].arg, now).content_hash
        IN  \A items \in Reordered(HashData(calls[k].fn, calls[k].arg)) :
                generate_content_hash(items) = stored
    /\ \A k \in HashingCalls \cap {Len(calls)}, j \in HashingCalls :
        (/\ calls[k].fn = calls[j].fn
         /\ SameHashedFields(calls[k].fn, calls[k].arg, calls[j].arg))
        => NewRow(calls[k].fn, calls[k].arg, now).content_hash =
               NewRow(calls[j].fn, calls[j].arg, now).content_hash
    /\ (/\ calls # <<>>
        /\ LastCall.fn # "insert_course"
        /\ LastCall.ret = "True")
       => \A row \in RowsOf(LastCall.fn, LastCall.arg) :
            row.content_hash =
                generate_content_hash(HashData(LastCall.fn, LastCall.arg))

\* Two stored records that differ in identity or html_url only.
FingerprintDeterminismWitness ==
    /\ Len(calls) = 2
    /\ calls[1].fn = calls[2].fn
    /\ calls[1].fn # "insert_course"
    /\ calls[1].ret = "True"
    /\ calls[2].ret = "True"
    /\ calls[1].arg # calls[2].arg
    /\ SameHashedFields(calls[1].fn, calls[1].arg, calls[2].arg)
    /\ Cardinality(Reordered(HashData(calls[1].fn, calls[1].arg))) > 1

(***************************************************************************)
(* SpecResync: the orchestrator started again after a run that exited      *)
(* without any failure, up to MaxRuns runs, on the store the run before    *)
(* left. Runs that follow a failed run are not explored.                   *)
(***************************************************************************)
MaxRuns == 2

AllUpsertsSucceeded ==
    \A type \in EntityTypes :
        \A k \in 1..Len(rets[type]) : rets[type][k] = "True"

\* The run fetched everything, attempted every upsert and none failed.
RunClean == fetch_done /\ handler = "none" /\ AllUpsertsSucceeded

RunAgain ==
    /\ pc = "exit"
    /\ RunClean
    /\ runs < MaxRuns
    /\ runs' = runs + 1
    /\ prev' = [result |-> result, clean |-> RunClean, tables |-> tables]
    /\ pc' = "get_active_courses"
    /\ idx' = 0
    /\ result' = EmptyResult
    /\ fetch_done' = FALSE
    /\ stats' = NewStats
    /\ handler' = "none"
    /\ http' = NoRequest
    /\ rets' = [t \in EntityTypes |-> <<>>]
    /\ exit_code' = -1
    /\ UNCHANGED <<storeVars, calls, source, fetchVars>>

NextResync ==
    \/ Next
    \/ RunAgain

\* The first run starts on a source of at most one course.
InitResync ==
    /\ Init
    /\ Len(source.courses) <= 1
    /\ source.front \subseteq {1}

SpecResync == InitResync /\ [][NextResync]_vars

(***************************************************************************)
(* Re-sync stability (SpecResync).                                         *)
(***************************************************************************)
TableTypes == <<"courses", "assignments", "announcements", "front_pages">>

TableKeys == <<"course_id", "assignment_id", "announcement_id", "course_id">>

\* Per table, the identity and the fingerprint of every row. A course row
\* has no fingerprint column.
Fingerprints(tbls) ==
    [i \in 1..4 |->
        {[id |-> row[TableKeys[i]],
          content_hash |-> IF i = 1 THEN <<>> ELSE row.content_hash] :
            row \in tbls[i]}]

\* The identities of the items of one type in canvas_data.
FetchedIds(data, i) ==
    {IF i = 4 THEN data[TableTypes[i]][k].course_id ELSE data[TableTypes[i]][k].id :
        k \in 1..Len(data[TableTypes[i]])}

\* The rows of table i after this run, each with the row of the same
\* identity the previous run left.
RowPairs(i) ==
    {<<old, row>> \in prev.tables[i] \X tables[i] :
        old[TableKeys[i]] = row[TableKeys[i]]}

\* Two runs in a row, both without any failure, on the same upstream data.
Resynced ==
    /\ runs >= 2
    /\ pc = "exit"
    /\ RunClean
    /\ prev.clean
    /\ result = prev.result

\* C14 as stated: after the second of two runs on unchanged upstream data
\* the same rows with the same fingerprints are stored, and every row's
\* last-synced-at is later than after the first run.
ResyncStability ==
    Resynced
    => /\ Fingerprints(tables) = Fingerprints(prev.tables)
       /\ \A i \in 1..4 : \A pair \in RowPairs(i) :
            pair[2].last_synced_at > pair[1].last_synced_at

\* C14 amended: the same rows with the same fingerprints are stored; the
\* rows of the entities the runs fetched have a later last-synced-at, and
\* the rows of entities the source no longer returns keep theirs.
ResyncStabilityOfFetched ==
    Resynced
    => /\ Fingerprints(tables) = Fingerprints(prev.tables)
       /\ \A i \in 1..4 : \A pair \in RowPairs(i) :
            IF pair[2][TableKeys[i]] \in FetchedIds(result, i)
            THEN pair[2].last_synced_at > pair[1].last_synced_at
            ELSE pair[2] = pair[1]

ResyncStabilityWitness ==
    /\ Resynced
    /\ result.assignments # <<>>
    /\ \E pair \in RowPairs(2) : pair[2].last_synced_at > pair[1].last_synced_at
    /\ \E pair \in RowPairs(3) : pair[2] = pair[1]

(***************************************************************************)
(* What the run persists of the fetched data (Spec).                       *)
(***************************************************************************)
\* The entity types fetch_all returns.
FetchedTypes == DOMAIN EmptyResult

\* How many items of a type the run passed to an upsert.
UpsertCalls(type) == IF type \in DOMAIN rets THEN Len(rets[type]) ELSE 0

\* C15 as stated: in a run that returned, every fetched item of each of the
\* six fetched types was passed to the upsert of its type, and the report
\* has a success count for each of these types.
EveryFetchedTypePersisted ==
    RunReturned
    => \A type \in FetchedTypes :
        /\ UpsertCalls(type) = Len(result[type])
        /\ type \in DOMAIN stats

\* C15 amended: this holds for courses, assignments, announcements and front
\* pages, whose upserted items are then stored; quizzes and modules are
\* fetched but passed to no upsert, and the report has no count for them.
FourTypesPersisted ==
    RunReturned
    => /\ \A i \in 1..4 :
            /\ UpsertCalls(TableTypes[i]) = Len(result[TableTypes[i]])
            /\ TableTypes[i] \in DOMAIN stats
            /\ \A k \in Returned(TableTypes[i], "True") :
                 \E row \in tables[i] :
                    row[TableKeys[i]] =
                        IF i = 4 THEN result.front_pages[k].course_id
                                 ELSE result[TableTypes[i]][k].id
       /\ \A type \in FetchedTypes \ EntityTypes :
            /\ UpsertCalls(type) = 0
            /\ type \notin DOMAIN stats

FourTypesPersistedWitness ==
    /\ RunReturned
    /\ \A type \in FetchedTypes : Len(result[type]) >= 1
    /\ Len(result.assignments) >= 2
    /\ \A type \in EntityTypes : UpsertCalls(type) = Len(result[type])

(***************************************************************************)
(* Fingerprint and timestamp of the stored rows (SpecStorage).             *)
(***************************************************************************)
\* C16: after a successful upsert of any entity type, the stored row has a
\* content fingerprint and a last-synced-at timestamp, neither of them null.
FingerprintOnEveryRecord ==
    (/\ calls # <<>>
     /\ LastCall.ret = "True")
    => /\ RowsOf(LastCall.fn, LastCall.arg) # {}
       /\ \A row \in RowsOf(LastCall.fn, LastCall.arg) :
            /\ "content_hash" \in DOMAIN row
            /\ row.content_hash # <<>>
            /\ "last_synced_at" \in DOMAIN row
            /\ row.last_synced_at \in Nat

(***************************************************************************)
(* Errors of the quizzes request (Spec).                                   *)
(***************************************************************************)
\* The quizzes request failed with something other than a not-found
\* response: another status, a timeout or a connection failure.
QuizzesFailedOtherwise ==
    /\ http.endpoint.kind = "quizzes"
    /\ \/ http.response.kind = "network"
       \/ /\ http.response.kind = "http"
          /\ http.response.status \notin {200, 404}

\* C17: when the quizzes request fails with anything but a not-found
\* response, the error ends the run; it is never taken for an empty list.
OnlyNotFoundSwallowed ==
    QuizzesFailedOtherwise
    => /\ pc \in {"done", "exit"}
       /\ handler = "CanvasAPIError"
       /\ ~fetch_done

(***************************************************************************)
(* The order of the requests and of the upserts of a run (Spec).           *)
(***************************************************************************)
\* The sub-resources of a course, in the order fetch_all requests them.
SubResources ==
    <<"assignments", "announcements", "front_page", "quizzes", "modules">>

CourseIndex(list, course_id) ==
    CHOOSE k \in 1..Len(list) : list[k].id = course_id

\* The place of request h in a fetch that asks for the courses and then,
\* course after course, for each sub-resource of that course.
RequestPosition(h, list) ==
    IF h.endpoint.kind = "none" THEN -1
    ELSE IF h.endpoint.kind = "courses" THEN 0
    ELSE Len(SubResources) * (CourseIndex(list, h.course_id) - 1)
            + (CHOOSE i \in 1..Len(SubResources) : SubResources[i] = h.endpoint.kind)

\* Every request is the one that follows the request before it, and no
\* request is made once the upserts began.
FetchOrderStep ==
    http' # http
    => /\ RequestPosition(http', result'.courses) =
              RequestPosition(http, result'.courses) + 1
       /\ \A type \in EntityTypes : rets[type] = <<>>

\* Every upsert is of the type in turn: the lists of the types before it
\* were gone through, no upsert of a type after it was made.
PersistOrderStep ==
    rets' # rets
    => /\ fetch_done
       /\ \E i \in 1..4 :
            /\ \E ret \in {"True", "False", "raise"} :
                 rets' = [rets EXCEPT ![TableTypes[i]] = Append(@, ret)]
            /\ \A j \in 1..4 :
                 /\ j < i => Len(rets[TableTypes[j]]) = Len(result[TableTypes[j]])
                 /\ j > i => rets[TableTypes[j]] = <<>>

\* The course of every assignment, announcement and front page that was
\* upserted had its own upsert attempted before.
DependentAfterCourse ==
    \A i \in 2..4 : \A k \in 1..Len(rets[TableTypes[i]]) :
        \E c \in 1..Len(rets.courses) :
            result.courses[c].id = result[TableTypes[i]][k].course_id

\* C18: the fetch issues all requests of one course before the first of the
\* next course; the upserts are called type after type in the order courses,
\* assignments, announcements, front pages; so the upsert of a dependent
\* record follows the upsert attempt of its course.
SequentialOrdering ==
    /\ [][FetchOrderStep /\ PersistOrderStep]_vars
    /\ []DependentAfterCourse

SequentialOrderingWitness ==
    /\ pc = "done"
    /\ handler = "none"
    /\ Len(result.courses) = 2
    /\ RequestPosition(http, result.courses) = 2 * Len(SubResources)
    /\ \A type \in EntityTypes : rets[type] # <<>>

(***************************************************************************)
(* The fingerprint of a stored row and the row's own content               *)
(* (SpecStorage).                                                          *)
(***************************************************************************)
\* The stored row read back as a record of its hashed fields.
StoredHash(fn, row) == generate_content_hash(HashData(fn, row))

\* C19: every stored assignment, announcement and front-page row has the
\* fingerprint generate_content_hash gives for the row's own hashed fields.
StoredFingerprintMatches ==
    \A fn \in {"insert_assignment", "insert_announcement", "insert_front_page"} :
        \A row \in TableOf(fn) : row.content_hash = StoredHash(fn, row)

====
